---- MODULE Spec2Model ----
(***************************************************************************)
(* ComfoConnectFan (custom_components/comfoconnect/fan.py): the cached     *)
(* percentage / preset mode of the fan entity, the commands that talk to   *)
(* the bridge, and the push handlers that mirror the device.               *)
(*                                                                         *)
(* A Python Optional is a set with at most one element: {} is None.        *)
(* A coroutine is cut at its awaits of the bridge: one step runs the code  *)
(* up to the await, one step per bridge answer runs the code after it.     *)
(* The push handlers are plain callbacks; the event loop runs them between *)
(* such steps. One command is in flight at a time.                         *)
(***************************************************************************)
EXTENDS Integers, Sequences, FiniteSets, TLC

----------------------------------------------------------------------------
(* aiocomfoconnect.const.VentilationSpeed / VentilationMode *)

SPEED_AWAY == "away"

SPEED_LOW == "low"

SPEED_MEDIUM == "medium"

SPEED_HIGH == "high"

MODE_AUTO == "auto"

MODE_MANUAL == "manual"

FAN_SPEEDS == <<SPEED_LOW, SPEED_MEDIUM, SPEED_HIGH>>

PRESET_MODES == <<MODE_AUTO, MODE_MANUAL, "away">>

\* Mutation of FAN_SPEED_MAPPING: the codes of LOW and MEDIUM swapped
FAN_SPEED_MAPPING_Swapped == (0 :> SPEED_AWAY) @@ (1 :> SPEED_MEDIUM) @@ (2 :> SPEED_LOW) @@ (3 :> SPEED_HIGH)

FAN_SPEED_MAPPING == (0 :> SPEED_AWAY) @@ (1 :> SPEED_LOW) @@ (2 :> SPEED_MEDIUM) @@ (3 :> SPEED_HIGH)

----------------------------------------------------------------------------
(* Inputs the environment may hand to the entity *)

\* speed codes pushed by the device are 0..MaxSpeedCode; 4 and above are not in the table
MaxSpeedCode == 4

\* operating-mode codes pushed by the device are -1..MaxModeCode
MaxModeCode == 1

SpeedCodes == 0..MaxSpeedCode

ModeCodes == -1..MaxModeCode

\* percentages a caller passes: the ends of every bucket, and values outside 0..100
PercentageInputs == {-1, 0, 1, 33, 34, 50, 66, 67, 100, 101}

\* percentages a caller passes to async_turn_on, besides none at all
TurnOnPercentageInputs == {0, 50, 101}

\* preset strings a caller passes: the supported ones, an unsupported one, the empty string
PresetInputs == {"auto", "manual", "away", "boost", ""}

----------------------------------------------------------------------------
(* homeassistant.util.percentage, as fan.py calls it *)

Range(list) == {list[i] : i \in 1..Len(list)}

\* list.index(item) + 1
ListPosition(list, item) == CHOOSE i \in 1..Len(list) : list[i] = item /\ \A j \in 1..(i - 1) : list[j] # item

UpperBound(list, position) == (position * 100) \div Len(list)

\* Mutation of ordered_list_item_to_percentage: the scale divided into one step too few
ordered_list_item_to_percentage_Short(list, item) == (ListPosition(list, item) * 100) \div (Len(list) - 1)

ordered_list_item_to_percentage(list, item) == UpperBound(list, ListPosition(list, item))

RECURSIVE FirstWithin(_, _, _)
FirstWithin(list, percentage, position) ==
    IF position > Len(list) THEN list[Len(list)]
    ELSE IF percentage <= UpperBound(list, position) THEN list[position]
    ELSE FirstWithin(list, percentage, position + 1)

RECURSIVE FirstBelow(_, _, _)
FirstBelow(list, percentage, position) ==
    IF position > Len(list) THEN list[Len(list)]
    ELSE IF percentage < UpperBound(list, position) THEN list[position]
    ELSE FirstBelow(list, percentage, position + 1)

\* Mutation of percentage_to_ordered_list_item: < for <= at the upper bound of a bucket
percentage_to_ordered_list_item_Strict(list, percentage) == FirstBelow(list, percentage, 1)

percentage_to_ordered_list_item(list, percentage) == FirstWithin(list, percentage, 1)

----------------------------------------------------------------------------
(* Pure pieces of the entity *)

\* Python truthiness of an Optional[int]
TruthyInt(opt) == \E v \in opt : v # 0

\* Python truthiness of an Optional[str]
TruthyStr(opt) == \E v \in opt : v # ""

\* Mutation of SpeedForPercentage: the percentage == 0 test left out
SpeedForPercentage_NoAway(percentage) == percentage_to_ordered_list_item(FAN_SPEEDS, percentage)

\* async_set_percentage: the speed handed to bridge.set_speed
SpeedForPercentage(percentage) ==
    IF percentage = 0 THEN SPEED_AWAY
    ELSE percentage_to_ordered_list_item(FAN_SPEEDS, percentage)

\* _handle_speed_update: the percentage cached for a code of the table
PercentageForCode(value) ==
    IF value = 0 THEN 0
    ELSE ordered_list_item_to_percentage(FAN_SPEEDS, FAN_SPEED_MAPPING[value])

\* Mutation of PresetForCode: MANUAL for code 1 only, AUTO for the rest
PresetForCode_ManualIsOne(value) == IF value = 1 THEN MODE_MANUAL ELSE MODE_AUTO

\* _handle_mode_update: the preset cached for a code
PresetForCode(value) == IF value = -1 THEN MODE_AUTO ELSE MODE_MANUAL

\* Mutation of IsSupportedPreset: the membership test left out
IsSupportedPreset_Any(preset_mode) == TRUE

\* async_set_preset_mode: preset_mode in self.preset_modes
IsSupportedPreset(preset_mode) == preset_mode \in Range(PRESET_MODES)

----------------------------------------------------------------------------
VARIABLES
    percentage,                 \* self.percentage (_attr_percentage; 0 until first set)
    preset_mode,                \* self._attr_preset_mode, {} is None
    last_non_away_percentage,   \* self._last_non_away_percentage, {} is None
    subscribed,                 \* sensor kinds whose dispatcher handler is connected
    registered,                 \* bridge.register_sensor calls received, in order
    life,                       \* where the entity is in its life cycle
    pc,                         \* the await the command in flight is suspended at
    cmd,                        \* the command in flight, or the one that returned last
    entry,                      \* the cached fields when cmd was invoked (or the handler ran)
    during,                     \* the fields push handlers wrote while cmd was suspended
    calls,                      \* bridge.set_speed / set_mode calls cmd has issued
    ev,                         \* the last step of a command or handler, and whether it notified
    trip                        \* progress of set_percentage(p); turn_off; set_preset_mode(auto)

vars == <<percentage, preset_mode, last_non_away_percentage, subscribed, registered, life,
          pc, cmd, entry, during, calls, ev, trip>>

cache == <<percentage, preset_mode, last_non_away_percentage>>

lifecycle == <<subscribed, registered, life>>

NoCmd == [op |-> "none", percentage |-> {}, preset_mode |-> {}]

NoEntry == [percentage |-> 0, preset_mode |-> {}, last_non_away_percentage |-> {}]

NoDuring == [speed |-> FALSE, mode |-> FALSE]

NoTrip == [phase |-> 0, percentage |-> 0]

Event(type, notified) == [type |-> type, value |-> 0, notified |-> notified]

PushEvent(type, value, notified) == [type |-> type, value |-> value, notified |-> notified]

Snapshot == [percentage |-> percentage, preset_mode |-> preset_mode, last_non_away_percentage |-> last_non_away_percentage]

is_on == percentage > 0

Init ==
    /\ percentage = 0
    /\ preset_mode = {}
    /\ last_non_away_percentage = {}
    /\ subscribed = {}
    /\ registered = <<>>
    /\ life = "constructed"
    /\ pc = "idle"
    /\ cmd = NoCmd
    /\ entry = NoEntry
    /\ during = NoDuring
    /\ calls = <<>>
    /\ ev = Event("init", FALSE)
    /\ trip = NoTrip

----------------------------------------------------------------------------
(* Life cycle: async_added_to_hass and removal *)

\* Mutation of async_added_to_hass: the sensor is asked for before its handler is connected
async_added_to_hass_RegisterFirst ==
    /\ life = "constructed"
    /\ registered' = Append(registered, "fan_speed_mode")
    /\ life' = "register_fan_speed_mode"
    /\ UNCHANGED <<cache, subscribed, pc, cmd, entry, during, calls, ev, trip>>

\* async_added_to_hass up to its first await: connect the speed handler, ask for the sensor
async_added_to_hass ==
    /\ life = "constructed"
    /\ subscribed' = subscribed \cup {"fan_speed_mode"}
    /\ registered' = Append(registered, "fan_speed_mode")
    /\ life' = "register_fan_speed_mode"
    /\ UNCHANGED <<cache, pc, cmd, entry, during, calls, ev, trip>>

\* the first register_sensor answers: connect the mode handler, ask for the sensor
register_fan_speed_mode_returns ==
    /\ life = "register_fan_speed_mode"
    /\ subscribed' = subscribed \cup {"operating_mode"}
    /\ registered' = Append(registered, "operating_mode")
    /\ life' = "register_operating_mode"
    /\ UNCHANGED <<cache, pc, cmd, entry, during, calls, ev, trip>>

\* the second register_sensor answers: async_added_to_hass returns
register_operating_mode_returns ==
    /\ life = "register_operating_mode"
    /\ life' = "added"
    /\ UNCHANGED <<cache, subscribed, registered, pc, cmd, entry, during, calls, ev, trip>>

\* either register_sensor raises: async_added_to_hass raises, what was connected stays
register_sensor_faults ==
    /\ life \in {"register_fan_speed_mode", "register_operating_mode"}
    /\ life' = "add_failed"
    /\ UNCHANGED <<cache, subscribed, registered, pc, cmd, entry, during, calls, ev, trip>>

\* the host removes the entity: every async_on_remove callback disconnects its handler
removed_from_hass ==
    /\ life \in {"added", "add_failed"}
    /\ subscribed' = {}
    /\ life' = "removed"
    /\ UNCHANGED <<cache, registered, pc, cmd, entry, during, calls, ev, trip>>

----------------------------------------------------------------------------
(* Push handlers *)

\* what a handler run leaves of the bookkeeping: a suspended command notes which field
\* was written under it; with no command in flight, entry keeps the fields the handler found
NotePush(field, written) ==
    IF pc = "idle"
    THEN /\ cmd' = NoCmd
         /\ entry' = Snapshot
         /\ during' = NoDuring
         /\ calls' = <<>>
    ELSE /\ during' = [during EXCEPT ![field] = @ \/ written]
         /\ UNCHANGED <<cmd, entry, calls>>

\* Mutation of _handle_speed_update: code 0 also marks the preset "away"
_handle_speed_update_MarksAway ==
    /\ "fan_speed_mode" \in subscribed
    /\ \E value \in SpeedCodes :
        IF value = 0 \/ value \in DOMAIN FAN_SPEED_MAPPING
        THEN /\ percentage' = PercentageForCode(value)
             /\ preset_mode' = IF value = 0 THEN {"away"} ELSE preset_mode
             /\ ev' = PushEvent("speed_update", value, TRUE)
             /\ NotePush("speed", TRUE)
        ELSE /\ percentage' = percentage
             /\ preset_mode' = preset_mode
             /\ ev' = PushEvent("key_error", value, FALSE)
             /\ NotePush("speed", FALSE)
    /\ trip' = NoTrip
    /\ UNCHANGED <<last_non_away_percentage, lifecycle, pc>>

\* Mutation of _handle_speed_update: a code outside the table falls back to LOW
_handle_speed_update_Fallback ==
    /\ "fan_speed_mode" \in subscribed
    /\ \E value \in SpeedCodes :
        /\ percentage' = IF value = 0 \/ value \in DOMAIN FAN_SPEED_MAPPING
                          THEN PercentageForCode(value)
                          ELSE ordered_list_item_to_percentage(FAN_SPEEDS, SPEED_LOW)
        /\ ev' = PushEvent("speed_update", value, TRUE)
        /\ NotePush("speed", TRUE)
    /\ trip' = NoTrip
    /\ UNCHANGED <<preset_mode, last_non_away_percentage, lifecycle, pc>>

_handle_speed_update ==
    /\ "fan_speed_mode" \in subscribed
    /\ \E value \in SpeedCodes :
        IF value = 0 \/ value \in DOMAIN FAN_SPEED_MAPPING
        THEN /\ percentage' = PercentageForCode(value)
             /\ ev' = PushEvent("speed_update", value, TRUE)
             /\ NotePush("speed", TRUE)
        ELSE \* FAN_SPEED_MAPPING[value] raises KeyError before anything is assigned
             /\ percentage' = percentage
             /\ ev' = PushEvent("key_error", value, FALSE)
             /\ NotePush("speed", FALSE)
    /\ trip' = NoTrip
    /\ UNCHANGED <<preset_mode, last_non_away_percentage, lifecycle, pc>>

_handle_mode_update ==
    /\ "operating_mode" \in subscribed
    /\ \E value \in ModeCodes :
        /\ preset_mode' = {PresetForCode(value)}
        /\ ev' = PushEvent("mode_update", value, TRUE)
        /\ NotePush("mode", TRUE)
    /\ trip' = NoTrip
    /\ UNCHANGED <<percentage, last_non_away_percentage, lifecycle, pc>>

----------------------------------------------------------------------------
(* Commands: the code up to the first await *)

SetSpeedCall(speed) == [fn |-> "set_speed", arg |-> speed]

SetModeCall(mode) == [fn |-> "set_mode", arg |-> mode]

\* a command is invoked on an added entity while no other command is in flight
Invoke(command) ==
    /\ pc = "idle"
    /\ life = "added"
    /\ cmd' = command
    /\ entry' = Snapshot
    /\ during' = NoDuring
    /\ UNCHANGED lifecycle

\* async_set_percentage up to await self._ccb.set_speed(speed); `at` names the caller's await
SetPercentageBody(issued, p, at) ==
    /\ calls' = Append(issued, SetSpeedCall(SpeedForPercentage(p)))
    /\ pc' = at
    /\ ev' = Event("suspended", FALSE)

\* async_set_preset_mode from line 194 on, up to await self._ccb.set_mode(preset_mode)
SetModeBody(issued, mode) ==
    IF mode \in {MODE_AUTO, MODE_MANUAL}
    THEN /\ calls' = Append(issued, SetModeCall(mode))
         /\ pc' = "set_mode"
         /\ ev' = Event("suspended", FALSE)
    ELSE /\ calls' = issued
         /\ pc' = "idle"
         /\ ev' = Event("returned", FALSE)

\* Mutation of SetPresetModeBody: leaving away does not restore the remembered percentage
SetPresetModeBody_NoRestore(mode) ==
    IF ~IsSupportedPreset(mode)
    THEN /\ calls' = <<>>
         /\ pc' = "idle"
         /\ ev' = Event("value_error", FALSE)
         /\ trip' = NoTrip
         /\ UNCHANGED cache
    ELSE IF mode = "away"
    THEN /\ last_non_away_percentage' =
                IF percentage # 0 /\ percentage > 0 THEN {percentage} ELSE last_non_away_percentage
         /\ SetPercentageBody(<<>>, 0, "away_set_speed")
         /\ UNCHANGED <<percentage, preset_mode, trip>>
    ELSE /\ SetModeBody(<<>>, mode)
         /\ UNCHANGED <<cache, trip>>

\* async_set_preset_mode up to its first await, or to its raise
SetPresetModeBody(mode) ==
    IF ~IsSupportedPreset(mode)
    THEN \* raise ValueError
         /\ calls' = <<>>
         /\ pc' = "idle"
         /\ ev' = Event("value_error", FALSE)
         /\ trip' = NoTrip
         /\ UNCHANGED cache
    ELSE IF mode = "away"
    THEN /\ last_non_away_percentage' =
                IF percentage # 0 /\ percentage > 0 THEN {percentage} ELSE last_non_away_percentage
         /\ SetPercentageBody(<<>>, 0, "away_set_speed")
         /\ UNCHANGED <<percentage, preset_mode, trip>>
    ELSE IF preset_mode = {"away"} /\ TruthyInt(last_non_away_percentage)
    THEN /\ \E restore \in last_non_away_percentage :
                SetPercentageBody(<<>>, restore, "restore_set_speed")
         /\ UNCHANGED <<cache, trip>>
    ELSE /\ SetModeBody(<<>>, mode)
         /\ UNCHANGED <<cache, trip>>

async_set_percentage ==
    \E p \in PercentageInputs :
        /\ Invoke([op |-> "set_percentage", percentage |-> {p}, preset_mode |-> {}])
        /\ SetPercentageBody(<<>>, p, "set_speed")
        /\ UNCHANGED <<cache, trip>>

async_set_preset_mode ==
    \E mode \in PresetInputs :
        /\ Invoke([op |-> "set_preset_mode", percentage |-> {}, preset_mode |-> {mode}])
        /\ SetPresetModeBody(mode)

async_turn_off ==
    /\ Invoke([op |-> "turn_off", percentage |-> {}, preset_mode |-> {}])
    /\ SetPresetModeBody("away")

\* Mutation of TurnOnPercentage: the default is the middle of the scale
TurnOnPercentage_Half(p) == IF p = {} THEN 50 ELSE CHOOSE x \in p : TRUE

\* the percentage async_turn_on sets when no preset is given
TurnOnPercentage(p) == IF p = {} THEN 1 ELSE CHOOSE x \in p : TRUE

async_turn_on ==
    \E p \in {{}} \cup {{x} : x \in TurnOnPercentageInputs}, m \in {{}} \cup {{x} : x \in PresetInputs} :
        /\ Invoke([op |-> "turn_on", percentage |-> p, preset_mode |-> m])
        /\ IF TruthyStr(m)
           THEN \E mode \in m : SetPresetModeBody(mode)
           ELSE /\ SetPercentageBody(<<>>, TurnOnPercentage(p), "set_speed")
                /\ UNCHANGED <<cache, trip>>

----------------------------------------------------------------------------
(* Commands: the code after a bridge call answers *)

\* the preset the command in flight is setting
TargetMode == CHOOSE mode \in cmd.preset_mode : TRUE

\* set_percentage(p); turn_off; set_preset_mode(auto), each returned with no other step between
TripAfter(command) ==
    IF command.op = "set_percentage" /\ \E p \in command.percentage : p > 0 /\ p <= 100
    THEN [phase |-> 1, percentage |-> CHOOSE p \in command.percentage : TRUE]
    ELSE IF trip.phase = 1 /\ command.op = "turn_off"
    THEN [trip EXCEPT !.phase = 2]
    ELSE IF trip.phase = 2 /\ command.op = "set_preset_mode" /\ command.preset_mode = {MODE_AUTO}
    THEN [trip EXCEPT !.phase = 3]
    ELSE NoTrip

Return(notified) ==
    /\ pc' = "idle"
    /\ ev' = Event("returned", notified)
    /\ trip' = TripAfter(cmd)
    /\ UNCHANGED <<lifecycle, cmd, entry, during>>

\* Mutation of set_speed_returns: async_set_percentage caches what it was given
set_speed_returns_Caching ==
    /\ pc = "set_speed"
    /\ percentage' = TurnOnPercentage(cmd.percentage)
    /\ Return(TRUE)
    /\ UNCHANGED <<preset_mode, last_non_away_percentage, calls>>

\* bridge.set_speed answers inside a plain async_set_percentage: nothing is cached
set_speed_returns ==
    /\ pc = "set_speed"
    /\ Return(FALSE)
    /\ UNCHANGED <<cache, calls>>

\* Mutation of away_set_speed_returns: the assignment of _attr_percentage left out
away_set_speed_returns_NoPercentage ==
    /\ pc = "away_set_speed"
    /\ preset_mode' = {"away"}
    /\ Return(TRUE)
    /\ UNCHANGED <<percentage, last_non_away_percentage, calls>>

\* bridge.set_speed(AWAY) answers inside the away branch: lines 181-184
away_set_speed_returns ==
    /\ pc = "away_set_speed"
    /\ preset_mode' = {"away"}
    /\ percentage' = 0
    /\ Return(TRUE)
    /\ UNCHANGED <<last_non_away_percentage, calls>>

\* Mutation of restore_set_speed_returns: the restored percentage is cached at once
restore_set_speed_returns_Caching ==
    /\ pc = "restore_set_speed"
    /\ percentage' = CHOOSE restore \in last_non_away_percentage : TRUE
    /\ SetModeBody(calls, TargetMode)
    /\ UNCHANGED <<preset_mode, last_non_away_percentage, lifecycle, cmd, entry, during, trip>>

\* Mutation of restore_set_speed_returns: the remembered percentage is used up
restore_set_speed_returns_Consuming ==
    /\ pc = "restore_set_speed"
    /\ last_non_away_percentage' = {}
    /\ SetModeBody(calls, TargetMode)
    /\ UNCHANGED <<percentage, preset_mode, lifecycle, cmd, entry, during, trip>>

\* bridge.set_speed(restore) answers when leaving away: on to lines 194-196
restore_set_speed_returns ==
    /\ pc = "restore_set_speed"
    /\ SetModeBody(calls, TargetMode)
    /\ UNCHANGED <<cache, lifecycle, cmd, entry, during, trip>>

\* bridge.set_mode answers: lines 197-198
set_mode_returns ==
    /\ pc = "set_mode"
    /\ preset_mode' = {TargetMode}
    /\ Return(TRUE)
    /\ UNCHANGED <<percentage, last_non_away_percentage, calls>>

\* a bridge call raises: the exception leaves every coroutine on the stack
bridge_call_faults ==
    /\ pc # "idle"
    /\ pc' = "idle"
    /\ ev' = Event("bridge_fault", FALSE)
    /\ trip' = NoTrip
    /\ UNCHANGED <<cache, lifecycle, cmd, entry, during, calls>>

----------------------------------------------------------------------------
Next ==
    \/ async_added_to_hass
    \/ register_fan_speed_mode_returns
    \/ register_operating_mode_returns
    \/ register_sensor_faults
    \/ removed_from_hass
    \/ _handle_speed_update
    \/ _handle_mode_update
    \/ async_set_percentage
    \/ async_set_preset_mode
    \/ async_turn_off
    \/ async_turn_on
    \/ set_speed_returns
    \/ away_set_speed_returns
    \/ restore_set_speed_returns
    \/ set_mode_returns
    \/ bridge_call_faults

Spec == Init /\ [][Next]_vars

----------------------------------------------------------------------------
(* What the properties below read off a state *)

\* the command named by cmd has just returned without a fault
Returned == pc = "idle" /\ ev.type = "returned"

\* no push handler wrote the cached fields while the command was suspended
Undisturbed == ~during.speed /\ ~during.mode

\* the equal-width buckets of the three-step scale, written out
BucketSpeed(p) == IF p = 0 THEN "away" ELSE IF p <= 33 THEN "low" ELSE IF p <= 66 THEN "medium" ELSE "high"

FreshEntry == entry.percentage = 0 /\ entry.preset_mode = {} /\ entry.last_non_away_percentage = {}

SupportedPresets == {{}, {"auto"}, {"manual"}, {"away"}}

----------------------------------------------------------------------------
(* C1 *)

----------------------------------------------------------------------------
(* C2 *)

----------------------------------------------------------------------------
(* C3 *)

\* C3 as stated: after a command has returned or a push handler has run, the cached preset
\* is "away" exactly when the cached percentage is 0.
C3_AwayIffZero ==
    (pc = "idle" /\ ev.type \in {"returned", "speed_update", "mode_update"}) =>
        (preset_mode = {"away"} <=> percentage = 0)

----------------------------------------------------------------------------
(* C4 *)

\* C4 as stated: on a fresh adapter turn_on() sends set_mode(AUTO) then set_speed(LOW) and
\* leaves the LOW percentage and AUTO cached.
C4_TurnOnAssertsAuto ==
    (Returned /\ cmd.op = "turn_on" /\ cmd.percentage = {} /\ cmd.preset_mode = {} /\ FreshEntry) =>
        /\ calls = <<[fn |-> "set_mode", arg |-> "auto"], [fn |-> "set_speed", arg |-> "low"]>>
        /\ percentage = 33
        /\ preset_mode = {"auto"}

\* C4 amended: on a fresh adapter turn_on() sends set_speed(LOW) and no set_mode, and when it
\* returns with no push delivered meanwhile the cache is as constructed: percentage 0,
\* preset None.
C4_TurnOnSendsLowOnly ==
    (Returned /\ cmd.op = "turn_on" /\ cmd.percentage = {} /\ cmd.preset_mode = {} /\ FreshEntry) =>
        /\ calls = <<[fn |-> "set_speed", arg |-> "low"]>>
        /\ Undisturbed => (percentage = 0 /\ preset_mode = {} /\ last_non_away_percentage = {})

C4_Witness ==
    /\ Returned
    /\ cmd.op = "turn_on"
    /\ cmd.percentage = {}
    /\ cmd.preset_mode = {}
    /\ FreshEntry
    /\ Undisturbed
    /\ percentage = 0
    /\ preset_mode = {}

----------------------------------------------------------------------------
(* C5 *)

----------------------------------------------------------------------------
(* C6 *)

\* C6: set_preset_mode(x) with x not a supported preset, called directly or through
\* turn_on(preset_mode=x), raises ValueError, issues no bridge call and leaves the cached
\* percentage, the cached preset and the remembered percentage as they were.
C6_InvalidPresetRejected ==
    \A x \in cmd.preset_mode :
        (/\ cmd.op = "set_preset_mode" \/ (cmd.op = "turn_on" /\ x # "")
         /\ x \notin {"auto", "manual", "away"}) =>
            /\ pc = "idle"
            /\ ev.type = "value_error"
            /\ ~ev.notified
            /\ calls = <<>>
            /\ percentage = entry.percentage
            /\ preset_mode = entry.preset_mode
            /\ last_non_away_percentage = entry.last_non_away_percentage

C6_Witness ==
    /\ cmd.op = "turn_on"
    /\ cmd.preset_mode = {"boost"}
    /\ ev.type = "value_error"
    /\ percentage = 66
    /\ preset_mode = {"away"}
    /\ last_non_away_percentage = {100}

----------------------------------------------------------------------------
(* C7 *)

----------------------------------------------------------------------------
(* C8 *)

\* C8: in every reachable state the cached percentage is an integer in 0..100 and the
\* cached preset is None or one of auto, manual, away.
C8_CacheInRange ==
    /\ percentage \in 0..100
    /\ preset_mode \in SupportedPresets

C8_Witness ==
    /\ percentage = 100
    /\ preset_mode = {"away"}
    /\ ev.type = "speed_update"
    /\ pc # "idle"

----------------------------------------------------------------------------
(* C9 *)

\* C9: a speed push with a code of the table caches 0 for code 0 and, for codes 1, 2, 3, a
\* percentage of the LOW, MEDIUM, HIGH bucket (one that percentage_to_ordered_list_item
\* maps back to that speed), whatever was cached before.
C9_SpeedUpdateBucket ==
    ev.type = "speed_update" =>
        /\ ev.value \in {0, 1, 2, 3}
        /\ ev.value = 0 => percentage = 0
        /\ ev.value # 0 =>
            /\ percentage \in 1..100
            /\ percentage_to_ordered_list_item(FAN_SPEEDS, percentage) = <<"low", "medium", "high">>[ev.value]
            /\ BucketSpeed(percentage) = <<"low", "medium", "high">>[ev.value]

C9_Witness ==
    /\ ev.type = "speed_update"
    /\ ev.value = 2
    /\ percentage = 66
    /\ pc = "idle"
    /\ entry.percentage = 100
    /\ entry.preset_mode = {"away"}

----------------------------------------------------------------------------
(* C10 *)

\* C10: a mode push caches auto for code -1 and manual for every other code, whatever the
\* cached preset was, "away" included.
C10_ModeUpdatePreset ==
    ev.type = "mode_update" =>
        preset_mode = IF ev.value = -1 THEN {"auto"} ELSE {"manual"}

C10_Witness ==
    /\ ev.type = "mode_update"
    /\ ev.value = 0
    /\ pc = "idle"
    /\ entry.preset_mode = {"away"}
    /\ preset_mode = {"manual"}

----------------------------------------------------------------------------
(* C11 *)

\* the command sets the preset `mode`, directly or through turn_on(preset_mode=mode)
SetsPreset(mode) ==
    /\ cmd.preset_mode = {mode}
    /\ cmd.op \in {"set_preset_mode", "turn_on"}

\* the command was invoked with "away" cached and a percentage remembered
LeavingAway == entry.preset_mode = {"away"} /\ entry.last_non_away_percentage # {}

\* the bridge calls leaving away issues, in order
LeavingAwayCalls(mode) ==
    <<[fn |-> "set_speed", arg |-> BucketSpeed(CHOOSE r \in entry.last_non_away_percentage : TRUE)],
      [fn |-> "set_mode", arg |-> mode]>>

\* C11: set_preset_mode(m), m auto or manual, invoked with "away" cached and a percentage r
\* remembered, issues set_speed(speed of r) and, only once that has answered, set_mode(m),
\* and caches m only once set_mode has answered; invoked with another preset cached or with
\* nothing remembered it issues set_mode(m) alone.
C11_LeavingAwayOrder ==
    \A mode \in {"auto", "manual"} : SetsPreset(mode) =>
        /\ pc \in {"idle", "restore_set_speed", "set_mode"}
        /\ pc = "restore_set_speed" => (LeavingAway /\ calls = SubSeq(LeavingAwayCalls(mode), 1, 1))
        /\ pc = "set_mode" => calls = IF LeavingAway THEN LeavingAwayCalls(mode)
                                      ELSE <<[fn |-> "set_mode", arg |-> mode]>>
        /\ (pc # "idle" /\ ~during.mode) => preset_mode = entry.preset_mode
        /\ Returned =>
            /\ calls = IF LeavingAway THEN LeavingAwayCalls(mode)
                       ELSE <<[fn |-> "set_mode", arg |-> mode]>>
            /\ preset_mode = {mode}

C11_Witness ==
    /\ Returned
    /\ cmd.op = "set_preset_mode"
    /\ cmd.preset_mode = {"manual"}
    /\ entry.preset_mode = {"away"}
    /\ entry.last_non_away_percentage = {100}
    /\ calls = <<[fn |-> "set_speed", arg |-> "high"], [fn |-> "set_mode", arg |-> "manual"]>>
    /\ preset_mode = {"manual"}

----------------------------------------------------------------------------
(* C12 *)

\* C12: once turn_off has returned without a bridge fault the cached percentage is 0, the
\* cached preset is "away", is_on is false, the bridge has received exactly one
\* set_speed(AWAY) and no set_mode, and a percentage q > 0 cached at invocation is the
\* remembered one.
C12_TurnOffGoesAway ==
    (Returned /\ cmd.op = "turn_off") =>
        /\ percentage = 0
        /\ preset_mode = {"away"}
        /\ ~is_on
        /\ calls = <<[fn |-> "set_speed", arg |-> "away"]>>
        /\ entry.percentage > 0 => last_non_away_percentage = {entry.percentage}

C12_Witness ==
    /\ Returned
    /\ cmd.op = "turn_off"
    /\ entry.percentage = 66
    /\ entry.preset_mode = {"manual"}
    /\ last_non_away_percentage = {66}
    /\ percentage = 0

----------------------------------------------------------------------------
(* C13 *)

\* C13 as stated: set_percentage(p) clamps p to 0..100 before choosing the speed: the bridge
\* receives AWAY for p < 0 and HIGH for p > 100.
C13_ClampedSpeed ==
    (cmd.op = "set_percentage" /\ calls # <<>>) =>
        \A p \in cmd.percentage :
            /\ p < 0 => calls[1] = [fn |-> "set_speed", arg |-> "away"]
            /\ p > 100 => calls[1] = [fn |-> "set_speed", arg |-> "high"]

----------------------------------------------------------------------------
(* C14 *)

\* the command is turn_off or set_preset_mode("away"), directly or through turn_on
GoesAway == cmd.op = "turn_off" \/ SetsPreset("away")

\* C14: a speed push delivered while turn_off / set_preset_mode("away") awaits set_speed is
\* overwritten when the command completes: the cached percentage is then 0 and the
\* remembered percentage is the one cached at invocation, not the pushed one. A speed push
\* delivered with no command in flight leaves the pushed value cached. No other value of
\* the cached percentage arises.
C14_LastWriteWins ==
    /\ (Returned /\ GoesAway) =>
        /\ percentage = 0
        /\ last_non_away_percentage =
                IF entry.percentage > 0 THEN {entry.percentage} ELSE entry.last_non_away_percentage
    /\ (pc = "away_set_speed" /\ ev.type = "speed_update") =>
        /\ during.speed
        /\ percentage = <<0, 33, 66, 100>>[ev.value + 1]
        /\ last_non_away_percentage =
                IF entry.percentage > 0 THEN {entry.percentage} ELSE entry.last_non_away_percentage
    /\ (pc = "idle" /\ ev.type = "speed_update") => percentage = <<0, 33, 66, 100>>[ev.value + 1]

C14_Witness ==
    /\ Returned
    /\ GoesAway
    /\ during.speed
    /\ entry.percentage = 33
    /\ last_non_away_percentage = {33}
    /\ percentage = 0

\* the other order: the push comes after the command has completed
C14_WitnessPushAfter ==
    /\ pc = "idle"
    /\ ev.type = "speed_update"
    /\ entry.preset_mode = {"away"}
    /\ entry.percentage = 0
    /\ percentage = 66

----------------------------------------------------------------------------
(* C15 *)

\* C15: a run of _handle_speed_update that caches a percentage leaves the cached preset and
\* the remembered percentage alone, a run of _handle_mode_update leaves the cached
\* percentage and the remembered percentage alone; neither issues a bridge call nor moves
\* the command in flight, and each schedules the state update.
C15_HandlersFrame ==
    [][/\ (_handle_speed_update /\ ev'.type = "speed_update") =>
            /\ preset_mode' = preset_mode
            /\ last_non_away_percentage' = last_non_away_percentage
            /\ calls' \in {calls, <<>>}
            /\ pc' = pc
            /\ ev'.notified
       /\ _handle_mode_update =>
            /\ percentage' = percentage
            /\ last_non_away_percentage' = last_non_away_percentage
            /\ calls' \in {calls, <<>>}
            /\ pc' = pc
            /\ ev'.notified]_vars

C15_Witness ==
    /\ ev.type = "speed_update"
    /\ ev.value = 0
    /\ ev.notified
    /\ pc = "set_mode"
    /\ Len(calls) = 2
    /\ preset_mode = {"away"}
    /\ last_non_away_percentage = {66}

----------------------------------------------------------------------------
(* C16 *)

\* what set_preset_mode(mode) issues when invoked with the fields of entry cached
PresetCalls(mode) ==
    IF mode \notin {"auto", "manual", "away"} THEN <<>>
    ELSE IF mode = "away" THEN <<[fn |-> "set_speed", arg |-> "away"]>>
    ELSE IF LeavingAway THEN LeavingAwayCalls(mode)
    ELSE <<[fn |-> "set_mode", arg |-> mode]>>

\* the command has ended without a bridge fault: it returned, or raised ValueError
Ended == pc = "idle" /\ ev.type \in {"returned", "value_error"}

\* C16: turn_on with a (non-empty) preset_mode does what set_preset_mode(preset_mode) does
\* from the same cached fields, whatever percentage comes with it: the same bridge calls,
\* the same end. turn_on with no preset_mode issues exactly one set_speed, of the given
\* percentage's speed, LOW when none is given, and no set_mode.
C16_TurnOnDelegates ==
    /\ (Ended /\ cmd.op \in {"turn_on", "set_preset_mode"}) =>
            \A mode \in cmd.preset_mode : (cmd.op = "set_preset_mode" \/ mode # "") =>
                /\ calls = PresetCalls(mode)
                /\ ev.type = "value_error" <=> mode \notin {"auto", "manual", "away"}
                /\ mode \in {"auto", "manual"} => preset_mode = {mode}
                /\ mode = "away" => (preset_mode = {"away"} /\ percentage = 0)
    /\ (Ended /\ cmd.op = "turn_on" /\ cmd.preset_mode \in {{}, {""}}) =>
            /\ ev.type = "returned"
            /\ cmd.percentage = {} => calls = <<[fn |-> "set_speed", arg |-> "low"]>>
            /\ \A p \in cmd.percentage : calls = <<[fn |-> "set_speed", arg |-> BucketSpeed(IF p > 100 THEN 100 ELSE p)]>>

C16_Witness ==
    /\ Returned
    /\ cmd.op = "turn_on"
    /\ cmd.percentage = {50}
    /\ cmd.preset_mode = {"auto"}
    /\ LeavingAway
    /\ calls = <<[fn |-> "set_speed", arg |-> "low"], [fn |-> "set_mode", arg |-> "auto"]>>

----------------------------------------------------------------------------
(* C17 *)

\* C17: _handle_speed_update with a code outside 0..3 raises (KeyError) and leaves the
\* cached percentage, the cached preset and the remembered percentage as they were, with no
\* state update scheduled; only codes 0..3 are cached.
C17_UnknownCodeFaults ==
    [][_handle_speed_update =>
            /\ ev'.value \in {0, 1, 2, 3} => ev'.type = "speed_update"
            /\ ev'.value \notin {0, 1, 2, 3} =>
                /\ ev'.type = "key_error"
                /\ ~ev'.notified
                /\ percentage' = percentage
                /\ preset_mode' = preset_mode
                /\ last_non_away_percentage' = last_non_away_percentage
                /\ pc' = pc]_vars

C17_Witness ==
    /\ ev.type = "key_error"
    /\ ev.value = 4
    /\ ~ev.notified
    /\ pc = "idle"
    /\ percentage = 66
    /\ entry.percentage = 66
    /\ preset_mode = {"away"}
    /\ last_non_away_percentage = {100}

----------------------------------------------------------------------------
(* C18 *)

\* the code the device reports for a speed
CodeOfSpeed(speed) == CHOOSE code \in 0..3 : <<"away", "low", "medium", "high">>[code + 1] = speed

\* C18: set_percentage(p), 0 < p <= 100, sends one of low, medium, high, never away; and when
\* the device reports that speed's code to _handle_speed_update, the percentage cached is in
\* the bucket of p: percentage_to_ordered_list_item gives the same speed for both.
C18_EchoSameBucket ==
    \A p \in cmd.percentage : (cmd.op = "set_percentage" /\ p > 0 /\ p <= 100 /\ calls # <<>>) =>
        /\ calls[1].fn = "set_speed"
        /\ calls[1].arg \in {"low", "medium", "high"}
        /\ (pc = "set_speed" /\ ev.type = "speed_update" /\ ev.value = CodeOfSpeed(calls[1].arg)) =>
            /\ percentage_to_ordered_list_item(FAN_SPEEDS, percentage) = calls[1].arg
            /\ BucketSpeed(percentage) = BucketSpeed(p)

C18_Witness ==
    /\ cmd.op = "set_percentage"
    /\ cmd.percentage = {34}
    /\ pc = "set_speed"
    /\ ev.type = "speed_update"
    /\ ev.value = 2
    /\ calls = <<[fn |-> "set_speed", arg |-> "medium"]>>
    /\ percentage = 66
    /\ entry.percentage = 0

----------------------------------------------------------------------------
(* C19 *)

\* C19: a sensor kind is asked of the bridge only once its handler is connected (and with it
\* the disconnect that removal runs); when async_added_to_hass has returned both handlers
\* are connected and both sensors asked for, speed first; after removal no handler is
\* connected and no push handler runs.
C19_SubscribedBeforeRegistered ==
    /\ [](/\ life # "removed" => Range(registered) \subseteq subscribed
          /\ life = "added" =>
                /\ subscribed = {"fan_speed_mode", "operating_mode"}
                /\ registered = <<"fan_speed_mode", "operating_mode">>
          /\ life = "removed" => subscribed = {})
    /\ [][life = "removed" => ~(_handle_speed_update \/ _handle_mode_update)]_vars
    /\ [][(life' = "removed" /\ life # "removed") => subscribed' = {}]_vars

C19_Witness ==
    /\ life = "removed"
    /\ subscribed = {}
    /\ registered = <<"fan_speed_mode", "operating_mode">>
    /\ pc = "away_set_speed"
    /\ percentage = 66

----------------------------------------------------------------------------
(* C20 *)

\* C20: _last_non_away_percentage changes only when set_preset_mode("away") (turn_off
\* included) is invoked with a cached percentage > 0, and then to that percentage; nothing
\* sets it back to None and leaving away keeps it. So it is None or in 1..100, and entering
\* away with 0 cached keeps what was remembered.
C20_RememberedOnlyByAway ==
    /\ [](last_non_away_percentage = {} \/ \E q \in 1..100 : last_non_away_percentage = {q})
    /\ [][last_non_away_percentage' # last_non_away_percentage =>
            /\ pc = "idle"
            /\ pc' = "away_set_speed"
            /\ cmd'.op = "turn_off" \/ cmd'.preset_mode = {"away"}
            /\ percentage > 0
            /\ last_non_away_percentage' = {percentage}]_vars
    /\ [][(pc = "idle" /\ pc' = "away_set_speed") =>
            last_non_away_percentage' = IF percentage > 0 THEN {percentage} ELSE last_non_away_percentage]_vars

C20_Witness ==
    /\ Returned
    /\ cmd.op = "turn_off"
    /\ entry.percentage = 0
    /\ entry.preset_mode = {"auto"}
    /\ entry.last_non_away_percentage = {33}
    /\ last_non_away_percentage = {33}

====
